---- MODULE Spec2Model ----
(***************************************************************************)
(* DNARepeat: the suffix-tree repeat finder (DNA_Repeat_Finder.py) and the *)
(* consecutive-run finder (DNARepeatFinderTwo.py).                         *)
(*                                                                         *)
(* Indices are 0-based as in the source; TLA+ sequences are 1-based, so    *)
(* the symbol at source index k of a sequence s is s[k + 1].               *)
(***************************************************************************)
EXTENDS Integers, Sequences, FiniteSets, TLC

VARIABLES
    program,         \* which entry point this run executes
    sequence,        \* the argument of SuffixTree(text): the original sequence S
    text,            \* self.text = S + '$'
    nodes,           \* the SuffixTreeNode objects, in creation order; nodes[1] is self.root
    active_node,     \* build_suffix_tree locals
    active_edge,
    active_length,
    remainder,
    last_new_node,   \* 0 stands for None
    i,               \* the loop variable of "for i in range(n)"; -1 before the first phase
    repeats,         \* the value returned by SuffixTree.find_repeats
    pc,              \* the control point of the running program
    dna_str,         \* DNARepeatFinderTwo.find_repeats: its argument ...
    run_repeats,     \* ... and its returned value
    input_strings,   \* check_example: its argument ...
    output,          \* ... and the output it prints as "Actual Output"
    file_exists,     \* DNARepeatFinder: whether file_path can be opened
    file_lines,      \* the lines of the file, without their line ends
    dna_strings,     \* DNARepeatFinder.dna_strings
    error,           \* DNARepeatFinder.error
    results          \* DNARepeatFinder.results

treeVars == <<sequence, text, nodes, active_node, active_edge, active_length,
              remainder, last_new_node, i, repeats>>

runVars == <<dna_str, run_repeats>>

checkVars == <<input_strings, output>>

finderVars == <<file_exists, file_lines, dna_strings, error, results>>

vars == <<program, pc, treeVars, runVars, checkVars, finderVars>>

----------------------------------------------------------------------------
(* Bounds of the model *)

MaxLen == 6

MaxStrings == 3

----------------------------------------------------------------------------
(* Symbols *)

Alphabet == {"A", "C", "G", "T"}

Sentinel == "$"

Symbols == Alphabet \cup {Sentinel}

\* What a failed text[k] lookup yields in the model (Python raises IndexError).
IndexError == "IndexError"

None == 0

SeqsUpTo(S, k) == UNION {[1..m -> S] : m \in 0..k}

\* The sequences named by the specification's concrete cases and by main().
Examples ==
    { <<"A","A","A","A">>,
      <<"A","C">>,
      <<"A","C","G","T","A","C","G","T">>,
      <<"A","T","C","G","G","G","G","A","C","G","A">>,
      <<"A","T","G","C","A","T","C","G","A","T","C","G">> }

Inputs == SeqsUpTo(Alphabet, MaxLen) \cup Examples

----------------------------------------------------------------------------
(* Python list/str primitives *)

\* s[k] with Python's negative-index wrap-around; IndexError outside -len..len-1.
At(s, k) ==
    IF k >= 0 /\ k < Len(s) THEN s[k + 1]
    ELSE IF k < 0 /\ k >= -Len(s) THEN s[Len(s) + k + 1]
    ELSE IndexError

Min(a, b) == IF a < b THEN a ELSE b

\* s[a:b] for 0 <= a: the slice is clipped to the string.
Slice(s, a, b) ==
    LET lo == Min(a, Len(s))
        hi == Min(b, Len(s))
    IN  IF hi <= lo THEN << >> ELSE [k \in 1..(hi - lo) |-> s[lo + k]]

----------------------------------------------------------------------------
(* SuffixTreeNode *)

NoChildren == [c \in Symbols |-> None]

SuffixTreeNode(start, end) ==
    [children |-> NoChildren, start |-> start, end |-> end, suffix_link |-> None]

Root == 1

\* The build state as one value, so that a step is a function of it.
State ==
    [text |-> text, nodes |-> nodes, active_node |-> active_node,
     active_edge |-> active_edge, active_length |-> active_length,
     remainder |-> remainder, last_new_node |-> last_new_node, i |-> i, pc |-> pc]

Becomes(t) ==
    /\ text' = t.text
    /\ nodes' = t.nodes
    /\ active_node' = t.active_node
    /\ active_edge' = t.active_edge
    /\ active_length' = t.active_length
    /\ remainder' = t.remainder
    /\ last_new_node' = t.last_new_node
    /\ i' = t.i
    /\ pc' = t.pc

\* SuffixTree.__init__ up to the first iteration of the for loop.
NewTree(s) ==
    [text |-> s \o <<Sentinel>>, nodes |-> <<SuffixTreeNode(-1, -1)>>,
     active_node |-> Root, active_edge |-> -1, active_length |-> 0,
     remainder |-> 0, last_new_node |-> None, i |-> -1, pc |-> "for"]

----------------------------------------------------------------------------
(* SuffixTree.build_suffix_tree: one definition per path through the loops *)

EdgeLength(node) == node.end - node.start

HasChild(node, c) == c \in Symbols /\ node.children[c] # None

\* "if active_length == 0: active_edge = i"
EdgeIndex(t) == IF t.active_length = 0 THEN t.i ELSE t.active_edge

EdgeChar(t) == At(t.text, EdgeIndex(t))

NextNode(t) == t.nodes[t.active_node].children[EdgeChar(t)]

Raise(t) == [t EXCEPT !.pc = "error"]

\* "for i in range(n): remainder += 1; last_new_node = None"
StartPhase(t) ==
    [t EXCEPT !.i = t.i + 1, !.remainder = t.remainder + 1,
              !.last_new_node = None, !.pc = "while"]

\* A build that never resolves the pending suffix link.
SetSuffixLinkDropped(ns, from, target) == ns

\* "if last_new_node: last_new_node.suffix_link = <target>"
SetSuffixLink(ns, from, target) ==
    IF from # None THEN [ns EXCEPT ![from].suffix_link = target] ELSE ns

\* "active_length >= edge_length": the active point is at or past the end of the edge
CanWalkDown(active_len, edge_length) == active_len >= edge_length

\* A tail of the while body that shortens the active length at the root without
\* recomputing active_edge.
AfterExtensionStaleEdge(t) ==
    LET r == t.remainder - 1
        link == t.nodes[t.active_node].suffix_link
    IN  IF t.active_node = Root /\ t.active_length > 0
        THEN [t EXCEPT !.remainder = r,
                       !.active_length = t.active_length - 1]
        ELSE [t EXCEPT !.remainder = r,
                       !.active_node = IF link # None THEN link ELSE Root]

\* The tail of the while body: "remainder -= 1" and the move to the next suffix.
AfterExtension(t) ==
    LET r == t.remainder - 1
        link == t.nodes[t.active_node].suffix_link
    IN  IF t.active_node = Root /\ t.active_length > 0
        THEN [t EXCEPT !.remainder = r,
                       !.active_length = t.active_length - 1,
                       !.active_edge = t.i - r + 1]
        ELSE [t EXCEPT !.remainder = r,
                       !.active_node = IF link # None THEN link ELSE Root]

\* No edge starts with text[active_edge]: a new leaf under the active node.
NewLeafOp(t) ==
    LET c    == EdgeChar(t)
        leaf == Len(t.nodes) + 1
        ns1  == Append(t.nodes, SuffixTreeNode(t.i, Len(t.text)))
        ns2  == [ns1 EXCEPT ![t.active_node].children[c] = leaf]
        ns3  == SetSuffixLink(ns2, t.last_new_node, t.active_node)
    IN  IF c = IndexError THEN Raise(t)
        ELSE AfterExtension([t EXCEPT !.active_edge = EdgeIndex(t), !.nodes = ns3,
                                      !.last_new_node = None])

\* A walk-down that moves to the child without consuming the edge's length.
WalkDownOpKeepLength(t) ==
    LET next_node   == NextNode(t)
        edge_length == EdgeLength(t.nodes[next_node])
    IN  [t EXCEPT !.active_edge = EdgeIndex(t) + edge_length,
                  !.active_node = next_node]

\* The active point is past the edge: move to the child and "continue".
WalkDownOp(t) ==
    LET next_node   == NextNode(t)
        edge_length == EdgeLength(t.nodes[next_node])
    IN  [t EXCEPT !.active_edge = EdgeIndex(t) + edge_length,
                  !.active_length = t.active_length - edge_length,
                  !.active_node = next_node]

\* text[i] is already on the edge: "active_length += 1" and "break".
MatchOp(t) ==
    [t EXCEPT !.active_edge = EdgeIndex(t),
              !.active_length = t.active_length + 1,
              !.nodes = SetSuffixLink(t.nodes, t.last_new_node, t.active_node),
              !.last_new_node = None,
              !.pc = "for"]

\* The edge is split at the active point; the new internal node gets a new leaf.
SplitOp(t) ==
    LET c          == EdgeChar(t)
        next_node  == NextNode(t)
        old        == t.nodes[next_node]
        cut        == old.start + t.active_length
        split_node == Len(t.nodes) + 1
        leaf       == Len(t.nodes) + 2
        ns1 == t.nodes \o <<SuffixTreeNode(old.start, cut),
                            SuffixTreeNode(t.i, Len(t.text))>>
        ns2 == [ns1 EXCEPT ![t.active_node].children[c] = split_node]
        ns3 == [ns2 EXCEPT ![split_node].children[At(t.text, t.i)] = leaf]
        ns4 == [ns3 EXCEPT ![next_node].start = cut]
        ns5 == [ns4 EXCEPT ![split_node].children[At(t.text, cut)] = next_node]
        ns6 == SetSuffixLink(ns5, t.last_new_node, split_node)
    IN  IF At(t.text, cut) = IndexError THEN Raise(t)
        ELSE AfterExtension([t EXCEPT !.active_edge = EdgeIndex(t), !.nodes = ns6,
                                      !.last_new_node = split_node])

\* Which path the while body takes from state t.
Kind(t) ==
    IF ~HasChild(t.nodes[t.active_node], EdgeChar(t)) THEN "leaf"
    ELSE IF CanWalkDown(t.active_length, EdgeLength(t.nodes[NextNode(t)])) THEN "walk"
    ELSE IF At(t.text, t.nodes[NextNode(t)].start + t.active_length) = At(t.text, t.i)
         THEN "match"
    ELSE "split"

WhileBody(t) ==
    CASE Kind(t) = "leaf"  -> NewLeafOp(t)
      [] Kind(t) = "walk"  -> WalkDownOp(t)
      [] Kind(t) = "match" -> MatchOp(t)
      [] OTHER             -> SplitOp(t)

\* One step of build_suffix_tree from state t (pc "for" or "while").
BuildStep(t) ==
    IF t.pc = "for"
    THEN IF t.i + 1 < Len(t.text) THEN StartPhase(t) ELSE [t EXCEPT !.pc = "built"]
    ELSE IF t.remainder > 0 THEN WhileBody(t) ELSE [t EXCEPT !.pc = "for"]

RECURSIVE BuildFrom(_)
BuildFrom(t) == IF t.pc \in {"for", "while"} THEN BuildFrom(BuildStep(t)) ELSE t

\* SuffixTree(s): the constructor runs build_suffix_tree to completion.
SuffixTree(s) == BuildFrom(NewTree(s))

----------------------------------------------------------------------------
(* SuffixTree.find_repeats *)

\* A returned value that is either None or a list.
ReturnNone == [none |-> TRUE, list |-> << >>]

ReturnList(l) == [none |-> FALSE, list |-> l]

PairLess(p, q) == p[1] < q[1] \/ (p[1] = q[1] /\ p[2] < q[2])

\* list(set(...)) followed by .sort(): the pairs of a set in ascending order.
RECURSIVE SortPairs(_)
SortPairs(S) ==
    IF S = {} THEN << >>
    ELSE LET m == CHOOSE p \in S : \A q \in S \ {p} : PairLess(p, q)
         IN  <<m>> \o SortPairs(S \ {m})

ChildKeys(node) == {c \in Symbols : node.children[c] # None}

\* The pairs appended at one node: one per child, from the child's start and end.
Emitted(t, nd, current_string) ==
    LET node == t.nodes[nd]
    IN  IF Cardinality(ChildKeys(node)) > 1 /\ nd # Root
        THEN { <<t.nodes[node.children[c]].start - Len(current_string),
                 t.nodes[node.children[c]].start + t.nodes[node.children[c]].end
                     - t.nodes[node.children[c]].start - 1>> :
               c \in { k \in ChildKeys(node) :
                         /\ EdgeLength(t.nodes[node.children[k]]) > 0
                         /\ t.nodes[node.children[k]].start
                              + t.nodes[node.children[k]].end
                              - t.nodes[node.children[k]].start - 1
                            > t.nodes[node.children[k]].start - Len(current_string) } }
        ELSE {}

\* dfs(node, current_string): every pair appended in the subtree of nd.
RECURSIVE Dfs(_, _, _)
Dfs(t, nd, current_string) ==
    LET node == t.nodes[nd]
    IN  Emitted(t, nd, current_string) \cup
        UNION { Dfs(t, node.children[c],
                    current_string \o
                      Slice(t.text, t.nodes[node.children[c]].start,
                            t.nodes[node.children[c]].start
                              + EdgeLength(t.nodes[node.children[c]]))) :
                c \in ChildKeys(node) }

FindRepeats(t) ==
    LET found == Dfs(t, Root, << >>)
    IN  IF found = {} THEN ReturnNone ELSE ReturnList(SortPairs(found))

----------------------------------------------------------------------------
(* Raw input strings: str.strip, str.upper and the validity patterns *)

Whitespace == {" "}

Upper(c) ==
    CASE c = "a" -> "A"
      [] c = "c" -> "C"
      [] c = "g" -> "G"
      [] c = "t" -> "T"
      [] OTHER   -> c

\* s.upper()
UpperStr(s) == [k \in 1..Len(s) |-> Upper(s[k])]

\* s.strip(): the leading and the trailing whitespace removed.
Strip(s) ==
    LET keep == {k \in 1..Len(s) : s[k] \notin Whitespace}
    IN  IF keep = {} THEN << >>
        ELSE LET lo == CHOOSE k \in keep : \A j \in keep : k <= j
                 hi == CHOOSE k \in keep : \A j \in keep : j <= k
             IN  SubSeq(s, lo, hi)

\* A normalisation that strips but keeps the case of the input.
NormalizeInputNoUpper(dna) == Strip(dna)

\* "dna.strip().upper()"
NormalizeInput(dna) == UpperStr(Strip(dna))

\* re.fullmatch(r'[ACGT]*', dna_str.upper()) is not None
is_valid_dna(dna) == \A k \in 1..Len(dna) : Upper(dna[k]) \in Alphabet

\* re.fullmatch(r'[ACGT]+', dna)
FullMatchPlus(dna) == Len(dna) >= 1 /\ \A k \in 1..Len(dna) : dna[k] \in Alphabet

\* An error message and the string it quotes; msg "" stands for no error.
Message(msg, arg) == [msg |-> msg, arg |-> arg]

NoError == Message("", << >>)

EmptyDict == [x \in {} |-> ReturnNone]

----------------------------------------------------------------------------
(* DNARepeatFinderTwo.find_repeats: runs of identical consecutive symbols *)

\* enumerate(dna_str): the (index, symbol) pairs, indices from 0.
Enumerate(s) == [k \in 1..Len(s) |-> <<k - 1, s[k]>>]

\* itertools.groupby(pairs, key=lambda x: x[1]): the maximal blocks of
\* consecutive pairs with equal symbols, in order.
RECURSIVE GroupBy(_)
GroupBy(pairs) ==
    IF pairs = << >> THEN << >>
    ELSE LET rest == GroupBy(Tail(pairs))
         IN  IF rest # << >> /\ Head(rest)[1][2] = Head(pairs)[2]
             THEN <<(<<Head(pairs)>> \o Head(rest))>> \o Tail(rest)
             ELSE <<(<<Head(pairs)>>)>> \o rest

\* A run detector that needs three symbols for a repeat.
IsRepeatGroupOverTwo(group) == Len(group) > 2

\* "if len(group) >= 2"
IsRepeatGroup(group) == Len(group) >= 2

RunRepeats(dna) ==
    LET kept == SelectSeq(GroupBy(Enumerate(dna)), IsRepeatGroup)
        found == [k \in 1..Len(kept) |-> <<kept[k][1][1], kept[k][Len(kept[k])][1]>>]
    IN  IF found = << >> THEN ReturnNone ELSE ReturnList(found)

----------------------------------------------------------------------------
(* DNARepeatFinderTwo.check_example *)

\* The for loop over input_strings from its k-th element on: the error message
\* it stops with (NoError when it runs to the end) and the strings accepted.
RECURSIVE CheckLoop(_, _, _, _)
CheckLoop(strs, k, dna_set, accepted) ==
    IF k > Len(strs) THEN [error_message |-> NoError, dna_strings |-> accepted]
    ELSE LET dna == strs[k]
             dna_upper == NormalizeInput(dna)
         IN  IF dna_upper = << >>
             THEN [error_message |-> Message("Error: Empty DNA string detected!", << >>),
                   dna_strings |-> accepted]
             ELSE IF ~is_valid_dna(dna_upper)
             THEN [error_message |-> Message("Error: Invalid DNA string detected!", dna),
                   dna_strings |-> accepted]
             ELSE IF dna_upper \in dna_set
             THEN [error_message |-> Message("Error: Duplicate input!", << >>),
                   dna_strings |-> accepted]
             ELSE CheckLoop(strs, k + 1, dna_set \cup {dna_upper},
                            Append(accepted, dna_upper))

\* The "Actual Output" of check_example: the error message, or the dictionary
\* from each accepted string to its repeats (serialised with sorted keys).
CheckOutput(strs) ==
    LET r == CheckLoop(strs, 1, {}, << >>)
        keys == {r.dna_strings[k] : k \in 1..Len(r.dna_strings)}
    IN  IF r.error_message # NoError
        THEN [error |-> r.error_message, dict |-> EmptyDict]
        ELSE [error |-> NoError, dict |-> [dna \in keys |-> RunRepeats(dna)]]

----------------------------------------------------------------------------
(* DNARepeatFinder: read_dna_file, check_duplicates, validate_dna_strings,
   process_dna_strings *)

\* "[line.strip().upper() for line in file.readlines() if line.strip()]"
ReadLines(lines) ==
    LET kept == SelectSeq(lines, LAMBDA line : Strip(line) # << >>)
    IN  [k \in 1..Len(kept) |-> UpperStr(Strip(kept[k]))]

\* check_duplicates from the k-th string on, with the strings seen so far.
RECURSIVE CheckDuplicates(_, _, _)
CheckDuplicates(strs, k, seen) ==
    IF k > Len(strs) THEN NoError
    ELSE IF strs[k] \in seen THEN Message("Error: Duplicate input!", << >>)
    ELSE CheckDuplicates(strs, k + 1, seen \cup {strs[k]})

\* validate_dna_strings from the k-th string on.
RECURSIVE ValidateDnaStrings(_, _)
ValidateDnaStrings(strs, k) ==
    IF k > Len(strs) THEN NoError
    ELSE IF ~FullMatchPlus(strs[k])
    THEN Message("Error: Invalid DNA string detected!", strs[k])
    ELSE ValidateDnaStrings(strs, k + 1)

\* process_dna_strings: the values of (error, results) it leaves.
ProcessDnaStrings(strs, err, res) ==
    IF err # NoError THEN [error |-> err, results |-> res]
    ELSE IF CheckDuplicates(strs, 1, {}) # NoError
    THEN [error |-> CheckDuplicates(strs, 1, {}), results |-> res]
    ELSE IF ValidateDnaStrings(strs, 1) # NoError
    THEN [error |-> ValidateDnaStrings(strs, 1), results |-> res]
    ELSE [error |-> NoError,
          results |-> [dna \in {strs[k] : k \in 1..Len(strs)} |->
                          FindRepeats(SuffixTree(dna))]]

----------------------------------------------------------------------------
(* Inputs *)

\* The strings main() passes to find_repeats through check_example.
RunExamples ==
    Examples \cup
    { <<"A","T","T","T","T","C","G","G","G","G","A","C","G","A">> }

RunInputs == SeqsUpTo(Alphabet, MaxLen) \cup RunExamples

\* Raw strings as a caller or a file supplies them: upper and lower case,
\* surrounding blanks, an empty and a blank string, a foreign symbol.
RawStrings ==
    { <<"A">>, <<"a">>, <<" ","A">>, <<"C">>,
      <<"A","C">>, <<"a","c"," ">>, <<"A","A">>,
      <<"A","T","C","G","G","G","G","A","C","G","A">>,
      << >>, <<" ">>, <<"A","X">> }

RawLists == SeqsUpTo(RawStrings, MaxStrings)

----------------------------------------------------------------------------
(* The programs as a state machine *)

TreeIdle ==
    /\ sequence = << >>
    /\ text = << >>
    /\ nodes = << >>
    /\ active_node = Root
    /\ active_edge = -1
    /\ active_length = 0
    /\ remainder = 0
    /\ last_new_node = None
    /\ i = -1
    /\ repeats = ReturnNone

RunIdle == dna_str = << >> /\ run_repeats = ReturnNone

CheckIdle == input_strings = << >> /\ output = [error |-> NoError, dict |-> EmptyDict]

FinderIdle ==
    /\ file_exists = TRUE
    /\ file_lines = << >>
    /\ dna_strings = << >>
    /\ error = NoError
    /\ results = EmptyDict

\* SuffixTree(sequence), at the head of the for loop of build_suffix_tree.
InitSuffixTree ==
    /\ program = "SuffixTree"
    /\ pc = "for"
    /\ sequence \in Inputs
    /\ text = NewTree(sequence).text
    /\ nodes = NewTree(sequence).nodes
    /\ active_node = Root
    /\ active_edge = -1
    /\ active_length = 0
    /\ remainder = 0
    /\ last_new_node = None
    /\ i = -1
    /\ repeats = ReturnNone
    /\ RunIdle /\ CheckIdle /\ FinderIdle

\* find_repeats(dna_str) of DNARepeatFinderTwo, at its call.
InitFindRepeats ==
    /\ program = "find_repeats"
    /\ pc = "call"
    /\ dna_str \in RunInputs
    /\ run_repeats = ReturnNone
    /\ TreeIdle /\ CheckIdle /\ FinderIdle

\* check_example(n, input_strings, expected), at its call.
InitCheckExample ==
    /\ program = "check_example"
    /\ pc = "call"
    /\ input_strings \in RawLists
    /\ output = [error |-> NoError, dict |-> EmptyDict]
    /\ TreeIdle /\ RunIdle /\ FinderIdle

\* DNARepeatFinder(file_path), after __init__ and before run().
InitFinder ==
    /\ program = "DNARepeatFinder"
    /\ pc = "run"
    /\ file_exists \in BOOLEAN
    /\ file_lines \in RawLists
    /\ dna_strings = << >>
    /\ error = NoError
    /\ results = EmptyDict
    /\ TreeIdle /\ RunIdle /\ CheckIdle

Init == InitSuffixTree \/ InitFindRepeats \/ InitCheckExample \/ InitFinder

OthersUnchanged == UNCHANGED <<program, sequence, repeats, runVars, checkVars, finderVars>>

ForNext ==
    /\ program = "SuffixTree"
    /\ pc = "for"
    /\ i + 1 < Len(text)
    /\ Becomes(StartPhase(State))
    /\ OthersUnchanged

ForEnd ==
    /\ program = "SuffixTree"
    /\ pc = "for"
    /\ i + 1 >= Len(text)
    /\ Becomes([State EXCEPT !.pc = "built"])
    /\ OthersUnchanged

WhileEnd ==
    /\ program = "SuffixTree"
    /\ pc = "while"
    /\ remainder <= 0
    /\ Becomes([State EXCEPT !.pc = "for"])
    /\ OthersUnchanged

NewLeaf ==
    /\ program = "SuffixTree"
    /\ pc = "while"
    /\ remainder > 0
    /\ Kind(State) = "leaf"
    /\ Becomes(NewLeafOp(State))
    /\ OthersUnchanged

WalkDown ==
    /\ program = "SuffixTree"
    /\ pc = "while"
    /\ remainder > 0
    /\ Kind(State) = "walk"
    /\ Becomes(WalkDownOp(State))
    /\ OthersUnchanged

Match ==
    /\ program = "SuffixTree"
    /\ pc = "while"
    /\ remainder > 0
    /\ Kind(State) = "match"
    /\ Becomes(MatchOp(State))
    /\ OthersUnchanged

Split ==
    /\ program = "SuffixTree"
    /\ pc = "while"
    /\ remainder > 0
    /\ Kind(State) = "split"
    /\ Becomes(SplitOp(State))
    /\ OthersUnchanged

\* SuffixTree.find_repeats on the completed tree.
find_repeats ==
    /\ program = "SuffixTree"
    /\ pc = "built"
    /\ repeats' = FindRepeats(State)
    /\ pc' = "done"
    /\ UNCHANGED <<program, sequence, text, nodes, active_node, active_edge,
                   active_length, remainder, last_new_node, i,
                   runVars, checkVars, finderVars>>

\* DNARepeatFinderTwo.find_repeats(dna_str)
find_repeats_two ==
    /\ program = "find_repeats"
    /\ pc = "call"
    /\ run_repeats' = RunRepeats(dna_str)
    /\ pc' = "done"
    /\ UNCHANGED <<program, dna_str, treeVars, checkVars, finderVars>>

\* DNARepeatFinderTwo.check_example; the comparison with expected_output only
\* prints a verdict and is left out.
check_example ==
    /\ program = "check_example"
    /\ pc = "call"
    /\ output' = CheckOutput(input_strings)
    /\ pc' = "done"
    /\ UNCHANGED <<program, input_strings, treeVars, runVars, finderVars>>

\* DNARepeatFinder.run: read_dna_file ...
read_dna_file ==
    /\ program = "DNARepeatFinder"
    /\ pc = "run"
    /\ IF file_exists
       THEN dna_strings' = ReadLines(file_lines) /\ error' = error
       ELSE dna_strings' = dna_strings /\ error' = Message("Error: File not found.", << >>)
    /\ pc' = "read"
    /\ UNCHANGED <<program, file_exists, file_lines, results, treeVars, runVars, checkVars>>

\* ... then process_dna_strings; output_results only prints.
process_dna_strings ==
    /\ program = "DNARepeatFinder"
    /\ pc = "read"
    /\ error' = ProcessDnaStrings(dna_strings, error, results).error
    /\ results' = ProcessDnaStrings(dna_strings, error, results).results
    /\ pc' = "done"
    /\ UNCHANGED <<program, file_exists, file_lines, dna_strings, treeVars, runVars, checkVars>>

Next ==
    \/ ForNext
    \/ ForEnd
    \/ WhileEnd
    \/ NewLeaf
    \/ WalkDown
    \/ Match
    \/ Split
    \/ find_repeats
    \/ find_repeats_two
    \/ check_example
    \/ read_dna_file
    \/ process_dna_strings

Spec == Init /\ [][Next]_vars

----------------------------------------------------------------------------
(* Vocabulary of the properties of the suffix-tree program *)

Returned == program = "SuffixTree" /\ pc = "done"

Built == program = "SuffixTree" /\ pc \in {"built", "done"}

\* The (start, end) pairs of the returned value; none when it is None.
Ranges == {repeats.list[k] : k \in 1..Len(repeats.list)}

\* The substring of the original sequence at 0-based positions p .. p+len-1.
Sub(p, len) == SubSeq(sequence, p + 1, p + len)

\* The 0-based start positions at which w occurs in the original sequence.
Occ(w) == {p \in 0..(Len(sequence) - Len(w)) : Sub(p, Len(w)) = w}

OccursTwice(w) == Cardinality(Occ(w)) >= 2

\* No one-symbol extension of w, to the left or to the right, occurs twice.
Maximal(w) ==
    \A c \in Alphabet : ~OccursTwice(<<c>> \o w) /\ ~OccursTwice(w \o <<c>>)

\* Positions a..b hold one symbol and the run cannot be extended.
MaximalRun(s, a, b) ==
    /\ 0 <= a /\ a <= b /\ b < Len(s)
    /\ \A k \in a..b : s[k + 1] = s[a + 1]
    /\ (a > 0 => s[a] # s[a + 1])
    /\ (b + 1 < Len(s) => s[b + 2] # s[a + 1])

HasRepeat ==
    \E p \in 0..(Len(sequence) - 2) : \E len \in 2..(Len(sequence) - p) :
        OccursTwice(Sub(p, len))

\* Every node reachable from nd, paired with the concatenation of the edge
\* labels text[start:end] on the way to it.
RECURSIVE PathsFrom(_, _)
PathsFrom(nd, path) ==
    {<<nd, path>>} \cup
    UNION { PathsFrom(nodes[nd].children[c],
                      path \o Slice(text, nodes[nodes[nd].children[c]].start,
                                    nodes[nodes[nd].children[c]].end)) :
            c \in ChildKeys(nodes[nd]) }

Paths == PathsFrom(Root, << >>)

IsLeaf(nd) == ChildKeys(nodes[nd]) = {}

LeafPaths == {p \in Paths : IsLeaf(p[1])}

Suffixes == {SubSeq(text, k, Len(text)) : k \in 1..Len(text)}

----------------------------------------------------------------------------
(* Properties of the suffix-tree program *)

\* C1: every returned range (start, end) satisfies 0 <= start <= end < |S|,
\* |S| the length of the sequence without the sentinel.
C1_RangesWithinSequence ==
    Returned => \A r \in Ranges : 0 <= r[1] /\ r[1] <= r[2] /\ r[2] < Len(sequence)

\* C2: every returned range has another returned range of the same length
\* holding the same symbols of S.
C2_EveryRepeatRecurs ==
    Returned =>
        \A r \in Ranges : \E q \in Ranges :
            /\ q # r
            /\ q[2] - q[1] = r[2] - r[1]
            /\ \A k \in 0..(r[2] - r[1]) :
                 /\ r[1] + k \in 0..(Len(sequence) - 1)
                 /\ q[1] + k \in 0..(Len(sequence) - 1)
                 /\ sequence[r[1] + k + 1] = sequence[q[1] + k + 1]

\* C3: for every maximal substring w of S with |w| >= 2 occurring at two or
\* more positions, the range (p, p+|w|-1) of every occurrence p is returned.
C3_NoFalseNegatives ==
    Returned =>
        \A p \in 0..(Len(sequence) - 2) : \A len \in 2..(Len(sequence) - p) :
            (OccursTwice(Sub(p, len)) /\ Maximal(Sub(p, len)))
                => \A q \in Occ(Sub(p, len)) : <<q, q + len - 1>> \in Ranges

\* C4: the range (a, a+k-1) of every maximal run of k >= 2 identical symbols
\* is returned.
C4_RunsReported ==
    Returned =>
        \A a \in 0..(Len(sequence) - 1) : \A b \in (a + 1)..(Len(sequence) - 1) :
            MaximalRun(sequence, a, b) => <<a, b>> \in Ranges

\* C5: the returned value is None when no substring of length >= 2 occurs at
\* two or more positions.
C5_NoneWhenNoRepeat == (Returned /\ ~HasRepeat) => repeats = ReturnNone

\* C6: when the build has completed for a non-empty S, the tree has exactly
\* |S|+1 leaves and their root-to-leaf label concatenations are exactly the
\* |S|+1 suffixes of S+'$', each spelled by exactly one leaf.
C6_LeavesAreSuffixes ==
    (Built /\ sequence # << >>) =>
        /\ Cardinality({nd \in 1..Len(nodes) : IsLeaf(nd)}) = Len(sequence) + 1
        /\ Cardinality(LeafPaths) = Len(sequence) + 1
        /\ {p[2] : p \in LeafPaths} = Suffixes
        /\ \A w \in Suffixes : Cardinality({p \in LeafPaths : p[2] = w}) = 1

\* A completed tree of a non-empty sequence in which an edge was split.
C6_Witness ==
    /\ Built
    /\ Len(sequence) >= 3
    /\ \E nd \in 2..Len(nodes) : ~IsLeaf(nd)

\* C9: when the build has completed, every internal node other than the root
\* has a suffix link, and it points to the node whose path string is the
\* linking node's path string without its first symbol.
C9_SuffixLinksCorrect ==
    Built =>
        \A p \in Paths :
            (p[1] # Root /\ ~IsLeaf(p[1])) =>
                /\ nodes[p[1]].suffix_link # None
                /\ <<nodes[p[1]].suffix_link, Tail(p[2])>> \in Paths

\* A completed tree with a link to the root and a link to another internal node.
C9_Witness ==
    /\ Built
    /\ \E nd \in 2..Len(nodes) : ~IsLeaf(nd) /\ nodes[nd].suffix_link = Root
    /\ \E nd \in 2..Len(nodes) :
           ~IsLeaf(nd) /\ nodes[nd].suffix_link \notin {None, Root}

\* The indices the next pass through the while body reads are inside the text.
StepIndicesInRange ==
    (program = "SuffixTree" /\ pc = "while" /\ remainder > 0) =>
        /\ EdgeIndex(State) \in 0..(Len(text) - 1)
        /\ (Kind(State) \in {"match", "split"} =>
              nodes[NextNode(State)].start + active_length \in 0..(Len(text) - 1))

\* The progress measure of build_suffix_tree: the phases still to start, the
\* loop the control is in, and inside the while loop the suffixes still to
\* insert and the distance of the active point from its node.
PcRank == IF pc = "while" THEN 2 ELSE IF pc = "for" THEN 1 ELSE 0

Rank == <<Len(text) - 1 - i, PcRank, remainder, active_length>>

LexLess(x, y) ==
    \E k \in 1..4 : x[k] < y[k] /\ \A j \in 1..(k - 1) : x[j] = y[j]

\* C10: for a non-empty S the build raises no error, reads the text only
\* inside its range and keeps remainder >= 0; every step of the loops, the
\* walk-down included, strictly decreases a measure that is bounded below, so
\* every phase ends; and the build returns with remainder = 0.
C10_BuildTerminates ==
    /\ [](sequence # << >> =>
            /\ pc # "error"
            /\ remainder >= 0
            /\ active_length >= 0
            /\ i <= Len(text) - 1
            /\ StepIndicesInRange
            /\ (pc = "built" => remainder = 0))
    /\ [][(sequence # << >> /\ pc \in {"for", "while"}) => LexLess(Rank', Rank)]_vars

\* A completed build of a non-empty sequence whose tree has an internal node
\* below another internal node.
C10_Witness ==
    /\ Built
    /\ remainder = 0
    /\ sequence # << >>
    /\ \E p \in Paths : ~IsLeaf(p[1]) /\ Len(p[2]) >= 2

----------------------------------------------------------------------------
(* Properties of the run detector and of the duplicate check *)

RunReturned == program = "find_repeats" /\ pc = "done"

\* The [start, end] pairs of the maximal runs of two or more equal symbols of s.
ExpectedRuns(s) ==
    {r \in (0..(Len(s) - 1)) \X (0..(Len(s) - 1)) :
        r[1] < r[2] /\ MaximalRun(s, r[1], r[2])}

\* C7: find_repeats(dna_str) of DNARepeatFinderTwo returns, in ascending order
\* of start, exactly the pairs of the maximal runs of two or more identical
\* consecutive symbols, and None when there is no such run.
C7_RunsExactlyMaximalRuns ==
    RunReturned =>
        /\ IF ExpectedRuns(dna_str) = {}
           THEN run_repeats = ReturnNone
           ELSE /\ ~run_repeats.none
                /\ {run_repeats.list[k] : k \in 1..Len(run_repeats.list)}
                     = ExpectedRuns(dna_str)
                /\ \A k \in 1..(Len(run_repeats.list) - 1) :
                     run_repeats.list[k][1] < run_repeats.list[k + 1][1]
        /\ (dna_str = <<"A","T","C","G","G","G","G","A","C","G","A">>
              => run_repeats = ReturnList(<< <<3, 6>> >>))
        /\ (dna_str = <<"A","T","T","T","T","C","G","G","G","G","A","C","G","A">>
              => run_repeats = ReturnList(<< <<1, 4>>, <<6, 9>> >>))
        /\ (dna_str = <<"A","A","A","A">> => run_repeats = ReturnList(<< <<0, 3>> >>))
        /\ (dna_str \in { <<"A","C">>, <<"A","C","G","T","A","C","G","T">>,
                          <<"A","T","G","C","A","T","C","G","A","T","C","G">> }
              => run_repeats = ReturnNone)

\* The detector has returned two runs for a string with runs and single symbols.
C7_Witness ==
    /\ RunReturned
    /\ dna_str = <<"A","T","T","T","T","C","G","G","G","G","A","C","G","A">>
    /\ Len(run_repeats.list) = 2

\* A raw string after strip and upper-casing.
Canonical(s) == UpperStr(Strip(s))

\* Every string of the list is, after strip and upper-casing, a non-empty
\* string over {A,C,G,T}.
ValidInputs(lst) ==
    \A k \in 1..Len(lst) :
        /\ Canonical(lst[k]) # << >>
        /\ \A j \in 1..Len(Canonical(lst[k])) : Canonical(lst[k])[j] \in Alphabet

HasDuplicate(lst) ==
    \E j, k \in 1..Len(lst) : j < k /\ Canonical(lst[j]) = Canonical(lst[k])

DuplicateInput == Message("Error: Duplicate input!", << >>)

\* C8: for a list of non-empty valid DNA strings, check_example outputs exactly
\* "Error: Duplicate input!" and no result when two strings are equal after
\* strip and upper-casing, wherever they sit, and otherwise a result entry
\* for every input string; process_dna_strings sets error to the same message
\* and leaves results empty.
C8_DuplicateSuppressesResults ==
    /\ (program = "check_example" /\ pc = "done" /\ ValidInputs(input_strings)) =>
          IF HasDuplicate(input_strings)
          THEN output = [error |-> DuplicateInput, dict |-> EmptyDict]
          ELSE /\ output.error = NoError
               /\ DOMAIN output.dict =
                    {Canonical(input_strings[k]) : k \in 1..Len(input_strings)}
    /\ (program = "DNARepeatFinder" /\ pc = "done" /\ file_exists
          /\ ValidInputs(file_lines) /\ HasDuplicate(file_lines)) =>
          (error = DuplicateInput /\ results = EmptyDict)

\* check_example has rejected three valid strings whose first and last differ
\* as written and are equal after strip and upper-casing.
C8_Witness ==
    /\ program = "check_example"
    /\ pc = "done"
    /\ Len(input_strings) = 3
    /\ ValidInputs(input_strings)
    /\ input_strings[1] # input_strings[3]
    /\ Canonical(input_strings[1]) = Canonical(input_strings[3])
    /\ Canonical(input_strings[2]) # Canonical(input_strings[1])
    /\ output.error = DuplicateInput

====
